---- MODULE Spec2Model ----
(***************************************************************************)
(* A model of scrapper.py: the Tk main thread (start_scraping,             *)
(* update_progress, the callback that re-enables the start button), the    *)
(* orchestrator thread (scrape_papers) and the pool workers                *)
(* (download_pdf), sharing the globals total_papers, downloaded_papers,    *)
(* is_scraping, log_queue and the metadata file METADATA_FILE.             *)
(*                                                                         *)
(* The network, the file system and the user are the environment: every    *)
(* request and every open or write succeeds or fails, and the listing of   *)
(* a year holds some number of links, chosen nondeterministically within   *)
(* what an environment record E allows.                                    *)
(*                                                                         *)
(* A text file opened in append mode buffers what is written to it and     *)
(* flushes it on close in one write, which the operating system appends    *)
(* at the end of the file. log_queue and log_area are bags of lines: the   *)
(* order of the lines is not modelled, nor are the progress bar and the    *)
(* PDF files.                                                              *)
(***************************************************************************)
EXTENDS Integers, Sequences, FiniteSets, Bags, TLC

\* ---------------------------------------------------------------- bounds
MaxDiscovered == 2    \* most links get_paper_links finds over an execution
RacePapers == 3       \* links of the one listing page of specification SpecRace
PoolPapers == 6       \* links of the one listing page of specification SpecPool
MaxRuns == 2          \* most accepted batches
MaxClicks == 2        \* most presses of the start button
MaxNotified == 2      \* the count of success dialogs saturates here

\* ------------------------------------------------------- program constants
THREAD_COUNT == 5
MinYear == 1987
MaxYear == 2025

\* The year ranges typed into the two entries: two valid, three invalid.
RangeInputs ==
    { <<1987, 1987>>, <<2024, 2025>>,
      <<1986, 1987>>, <<2025, 2026>>, <<2020, 2010>> }

Max(a, b) == IF a > b THEN a ELSE b

Idx == 1..Max(Max(MaxDiscovered, RacePapers), PoolPapers)

\* ------------------------------------------------------------ environments

\* Listings of least to most links (most over the execution), any failure.
World ==
    [ least  |-> 0,
      most   |-> MaxDiscovered,
      ranges |-> RangeInputs,
      runs   |-> MaxRuns,
      list   |-> {"request_error", "ok"},
      meta   |-> BOOLEAN,
      page   |-> {"request_error", "no_pdf", "found"},
      pdf    |-> [i \in Idx |-> {"request_error", "os_error", "ok", "http_error"}],
      io     |-> BOOLEAN ]

\* One year of RacePapers papers, every request and write succeeding.
Healthy ==
    [ least  |-> RacePapers,
      most   |-> RacePapers,
      ranges |-> { <<1987, 1987>> },
      runs   |-> 1,
      list   |-> {"ok"},
      meta   |-> {TRUE},
      page   |-> {"found"},
      pdf    |-> [i \in Idx |-> {"ok"}],
      io     |-> {TRUE} ]

\* One year of PoolPapers papers, more than the pool has threads: every
\* detail page is served, the PDF of the first paper only.
Crowded ==
    [ least  |-> PoolPapers,
      most   |-> PoolPapers,
      ranges |-> { <<1987, 1987>> },
      runs   |-> 1,
      list   |-> {"ok"},
      meta   |-> {TRUE},
      page   |-> {"found"},
      pdf    |-> [i \in Idx |-> IF i = 1 THEN {"ok"} ELSE {"request_error"}],
      io     |-> {TRUE} ]

VARIABLES
    total_papers,       \* global
    downloaded_papers,  \* global
    is_scraping,        \* global
    log_queue,          \* global queue.Queue: bag of messages
    csv,                \* METADATA_FILE: [exists, lines]
    start_button,       \* "normal" | "disabled"
    log_area,           \* bag of the lines shown to the observer
    messagebox,         \* last dialog: "none" | "error" | "info"
    notified,           \* success dialogs shown since the last start
    pollError,          \* update_progress raised ZeroDivisionError
    afterQ,             \* callbacks scheduled with app.after: [poll, enable]
    clicks,             \* invocations of start_scraping
    runs,               \* batches started
    range,              \* <<start_year, end_year>> of the last invocation
    pc,                 \* scrape_papers: "none" | "links" | "submit" | "drain" | "finish" | "crashed"
    year,               \* scrape_papers: loop variable
    paper_links,        \* scrape_papers: number of links of the current year
    idx,                \* scrape_papers: position in paper_links
    task,               \* the futures of the current executor
    appended,           \* rows appended to the sink since the last start
    discovered,         \* links found by get_paper_links since the program started
    listing             \* get_paper_links: how the request of the year in progress ended

vars == << total_papers, downloaded_papers, is_scraping, log_queue, csv,
           start_button, log_area, messagebox, notified, pollError, afterQ,
           clicks, runs, range, pc, year, paper_links, idx, task, appended,
           discovered, listing >>

\* A future that was never submitted. out is what the site answered last.
NoTask == [pc |-> "none", year |-> 0, hdr |-> FALSE, tmp |-> 0, out |-> "none"]

Finished(t) == t.pc \in {"none", "done", "raised"}

Running(t) == t.pc \notin {"none", "pending", "done", "raised"}

Msg(kind, y, i) == [kind |-> kind, year |-> y, paper |-> i]

\* The lines of the sink: the header line (writeheader, lines 112 and 139),
\* and the row of paper i of year y (writerow, line 113).
Header == << 0, 0 >>

Row(y, i) == << y, i >>

ValidNoOrder(r) == ~(r[1] < MinYear \/ r[2] > MaxYear)

\* The test of line 131.
Valid(r) == ~(r[1] < MinYear \/ r[2] > MaxYear \/ r[1] > r[2])

\* The sink before the program starts: absent, empty, or holding its header.
SinkStates ==
    { [exists |-> FALSE, lines |-> << >>],
      [exists |-> TRUE, lines |-> << >>],
      [exists |-> TRUE, lines |-> << Header >>] }

Init ==
    /\ total_papers = 0
    /\ downloaded_papers = 0
    /\ is_scraping = FALSE
    /\ log_queue = EmptyBag
    /\ csv \in SinkStates
    /\ start_button = "normal"
    /\ log_area = EmptyBag
    /\ messagebox = "none"
    /\ notified = 0
    /\ pollError = FALSE
    /\ afterQ = [poll |-> 0, enable |-> 0]
    /\ clicks = 0
    /\ runs = 0
    /\ range = << 0, 0 >>
    /\ pc = "none"
    /\ year = 0
    /\ paper_links = 0
    /\ idx = 0
    /\ task = [i \in Idx |-> NoTask]
    /\ appended = 0
    /\ discovered = 0
    /\ listing = "none"

\* ------------------------------------------------------------ main thread

InitSinkTruncate(f) == [exists |-> TRUE, lines |-> << Header >>]

\* Lines 135-139: the sink is created, with its header, only when absent.
InitSink(f) ==
    IF ~f.exists THEN [exists |-> TRUE, lines |-> << Header >>] ELSE f

\* start_scraping, lines 123-151: the command of the start button.
start_scraping(E) ==
    /\ start_button = "normal"
    /\ clicks < MaxClicks
    /\ \E r \in E.ranges :
        /\ Valid(r) => runs < E.runs
        /\ range' = r
        /\ clicks' = clicks + 1
        /\ downloaded_papers' = 0
        /\ IF ~Valid(r)
           THEN /\ messagebox' = "error"
                /\ UNCHANGED << total_papers, is_scraping, csv, start_button,
                                log_area, notified, runs, pc, year, appended >>
           ELSE /\ csv' = InitSink(csv)
                /\ log_area' = EmptyBag
                /\ total_papers' = 0
                /\ start_button' = "disabled"
                /\ is_scraping' = TRUE
                /\ pc' = IF r[1] <= r[2] THEN "links" ELSE "finish"   \* line 157
                /\ year' = r[1]
                /\ runs' = runs + 1
                /\ notified' = 0
                /\ appended' = 0
                /\ UNCHANGED messagebox
    /\ UNCHANGED << log_queue, pollError, afterQ, paper_links, idx, task, discovered, listing >>

\* update_progress, lines 178-193: a callback scheduled with app.after.
update_progress ==
    /\ afterQ.poll > 0
    /\ log_area' = log_area (+) log_queue
    /\ log_queue' = EmptyBag
    /\ IF total_papers = 0
       THEN \* line 185 divides by zero: the callback ends there
            /\ pollError' = TRUE
            /\ afterQ' = [afterQ EXCEPT !.poll = @ - 1]
            /\ UNCHANGED << messagebox, notified >>
       ELSE /\ IF downloaded_papers = total_papers
               THEN /\ messagebox' = "info"
                    /\ notified' = IF notified < MaxNotified THEN notified + 1 ELSE notified
               ELSE UNCHANGED << messagebox, notified >>
            /\ afterQ' = IF is_scraping THEN afterQ ELSE [afterQ EXCEPT !.poll = @ - 1]
            /\ UNCHANGED pollError
    /\ UNCHANGED << total_papers, downloaded_papers, is_scraping, csv, start_button,
                    clicks, runs, range, pc, year, paper_links, idx, task, appended, discovered, listing >>

\* Line 176: the callback that re-enables the start button.
enable_button ==
    /\ afterQ.enable > 0
    /\ afterQ' = [afterQ EXCEPT !.enable = @ - 1]
    /\ start_button' = "normal"
    /\ UNCHANGED << total_papers, downloaded_papers, is_scraping, log_queue, csv,
                    log_area, messagebox, notified, pollError, clicks, runs, range,
                    pc, year, paper_links, idx, task, appended, discovered, listing >>

\* ----------------------------------------------- orchestrator: scrape_papers

LinksOfPage(out, n) == n

Overwritten(t, n) == n

\* Line 160: total_papers += len(paper_links).
Accumulated(t, n) == t + n

\* What get_paper_links returns (lines 39-52) when the request ended as out
\* and the listing page of the year holds n links: a failed request is
\* caught (line 50) and gives the empty list.
LinksFound(out, n) == IF out = "request_error" THEN 0 ELSE n

\* get_paper_links, lines 34-53, and line 160. Line 163 then opens a new
\* executor.
get_paper_links(E) ==
    /\ pc = "links"
    /\ \E out \in E.list, n \in E.least..(E.most - discovered) :
        /\ listing' = out
        /\ paper_links' = LinksFound(out, n)
        /\ total_papers' = Accumulated(total_papers, LinksFound(out, n))
        /\ discovered' = discovered + LinksFound(out, n)
        /\ pc' = IF LinksFound(out, n) = 0 THEN "drain" ELSE "submit"
    /\ idx' = 1
    /\ task' = [i \in Idx |-> NoTask]
    /\ UNCHANGED << downloaded_papers, is_scraping, log_queue, csv, start_button,
                    log_area, messagebox, notified, pollError, afterQ, clicks, runs,
                    range, year, appended >>

\* Lines 165-168: fetch_metadata (lines 55-78) in the orchestrator's thread,
\* then the submission of download_pdf when it returned metadata.
fetch_metadata(E) ==
    /\ pc = "submit"
    /\ \E ok \in E.meta :
        task' = IF ok THEN [task EXCEPT ![idx] = [NoTask EXCEPT !.pc = "pending", !.year = year]]
                ELSE task
    /\ idx' = idx + 1
    /\ pc' = IF idx = paper_links THEN "drain" ELSE "submit"
    /\ UNCHANGED << total_papers, downloaded_papers, is_scraping, log_queue, csv,
                    start_button, log_area, messagebox, notified, pollError, afterQ,
                    clicks, runs, range, year, paper_links, appended, discovered, listing >>

NoWait(t) == TRUE

\* Lines 163, 171-172: as_completed, and leaving the with block, wait for
\* every future.
AllDone(t) == \A i \in Idx : Finished(t[i])

\* Lines 170-172 and the end of the loop body: future.result() re-raises what
\* download_pdf raised, after the executor's shutdown has waited for the rest.
drain ==
    /\ pc = "drain"
    /\ AllDone(task)
    /\ IF \E i \in Idx : task[i].pc = "raised"
       THEN pc' = "crashed" /\ UNCHANGED year
       ELSE /\ year' = year + 1
            /\ pc' = IF year < range[2] THEN "links" ELSE "finish"
    /\ listing' = "none"
    /\ UNCHANGED << total_papers, downloaded_papers, is_scraping, log_queue, csv,
                    start_button, log_area, messagebox, notified, pollError, afterQ,
                    clicks, runs, range, paper_links, idx, task, appended, discovered >>

\* Lines 174-176; the thread ends and with it the last executor's futures.
finish ==
    /\ pc = "finish"
    /\ is_scraping' = FALSE
    /\ afterQ' = [afterQ EXCEPT !.enable = @ + 1]
    /\ pc' = "none"
    /\ paper_links' = 0
    /\ idx' = 0
    /\ task' = [i \in Idx |-> IF Finished(task[i]) THEN NoTask ELSE task[i]]
    /\ UNCHANGED << total_papers, downloaded_papers, log_queue, csv, start_button,
                    log_area, messagebox, notified, pollError, clicks, runs, range,
                    year, appended, discovered, listing >>


\* ---------------------------------------------- pool workers: download_pdf

Put(q, m) == q (+) SetToBag({m})

SlotAlways(t) == TRUE

\* A pool of THREAD_COUNT threads (line 163) takes a pending future only
\* while one of its threads is free.
SlotFree(t) == Cardinality({ j \in Idx : Running(t[j]) }) < THREAD_COUNT

PageNextNoReturn(out) == IF out = "request_error" THEN "done" ELSE "get_pdf"

\* Where download_pdf goes after the detail page: it returns when the
\* request failed (lines 120-121) or no PDF link was found (lines 90-92).
PageNext(out) == IF out \in {"request_error", "no_pdf"} THEN "done" ELSE "get_pdf"

\* The line download_pdf enqueues after the detail page (lines 91, 99, 121).
PageMsg(out) ==
    CASE out = "request_error" -> "error"
      [] out = "no_pdf" -> "no_pdf"
      [] out = "found" -> "downloading"

\* Lines 84-99: the detail page is fetched and the PDF link located.
locate_pdf(i, E) ==
    /\ task[i].pc = "pending"
    /\ SlotFree(task)
    /\ \E out \in E.page :
        /\ log_queue' = Put(log_queue, Msg(PageMsg(out), task[i].year, i))
        /\ task' = [task EXCEPT ![i].pc = PageNext(out), ![i].out = out]
    /\ UNCHANGED << total_papers, downloaded_papers, is_scraping, csv, start_button,
                    log_area, messagebox, notified, pollError, afterQ, clicks, runs,
                    range, pc, year, paper_links, idx, appended, discovered, listing >>

\* Lines 100-105: the PDF is requested and streamed to pdf_path. The status
\* of the response is not looked at: the body of an error response is
\* streamed to the file like a PDF. Only requests.RequestException is caught
\* (line 120): an OSError of open or write leaves download_pdf.
stream_pdf(i, E) ==
    /\ task[i].pc = "get_pdf"
    /\ \E out \in E.pdf[i] :
        CASE out = "request_error" ->
               /\ log_queue' = Put(log_queue, Msg("error", task[i].year, i))
               /\ task' = [task EXCEPT ![i].pc = "done", ![i].out = out]
          [] out = "os_error" ->
               /\ task' = [task EXCEPT ![i].pc = "raised", ![i].out = out]
               /\ UNCHANGED log_queue
          [] out \in {"ok", "http_error"} ->
               /\ log_queue' = Put(log_queue, Msg("saved", task[i].year, i))
               /\ task' = [task EXCEPT ![i].pc = "open_csv", ![i].out = out]
    /\ UNCHANGED << total_papers, downloaded_papers, is_scraping, csv, start_button,
                    log_area, messagebox, notified, pollError, afterQ, clicks, runs,
                    range, pc, year, paper_links, idx, appended, discovered, listing >>

\* Lines 109-111: METADATA_FILE is opened for appending (and created when
\* absent); tell() is the size of the file at that moment.
open_csv(i, E) ==
    /\ task[i].pc = "open_csv"
    /\ \E ok \in E.io :
        IF ok
        THEN /\ csv' = [csv EXCEPT !.exists = TRUE]
             /\ task' = [task EXCEPT ![i].pc = "write_csv", ![i].hdr = (Len(csv.lines) = 0)]
        ELSE /\ task' = [task EXCEPT ![i].pc = "raised", ![i].out = "os_error"]
             /\ UNCHANGED csv
    /\ UNCHANGED << total_papers, downloaded_papers, is_scraping, log_queue,
                    start_button, log_area, messagebox, notified, pollError, afterQ,
                    clicks, runs, range, pc, year, paper_links, idx, appended, discovered, listing >>

\* What one writer's buffer holds at close: the header when tell() was 0,
\* then the row.
Buffered(t, i) ==
    (IF t.hdr THEN << Header >> ELSE << >>) \o << Row(t.year, i) >>

\* Lines 112-113 and the end of the with block: the buffer is flushed to
\* the end of the file.
write_csv(i, E) ==
    /\ task[i].pc = "write_csv"
    /\ \E ok \in E.io :
        IF ok
        THEN /\ csv' = [csv EXCEPT !.lines = @ \o Buffered(task[i], i)]
             /\ appended' = appended + 1
             /\ task' = [task EXCEPT ![i].pc = "inc_read", ![i].hdr = FALSE]
        ELSE /\ task' = [task EXCEPT ![i].pc = "raised", ![i].hdr = FALSE,
                                     ![i].out = "os_error"]
             /\ UNCHANGED << csv, appended >>
    /\ UNCHANGED << total_papers, downloaded_papers, is_scraping, log_queue,
                    start_button, log_area, messagebox, notified, pollError, afterQ,
                    clicks, runs, range, pc, year, paper_links, idx, discovered, listing >>

\* Line 116, downloaded_papers += 1, is a load and a store with no lock:
\* another worker may run between the two.
inc_read(i) ==
    /\ task[i].pc = "inc_read"
    /\ task' = [task EXCEPT ![i].pc = "inc_write", ![i].tmp = downloaded_papers]
    /\ UNCHANGED << total_papers, downloaded_papers, is_scraping, log_queue, csv,
                    start_button, log_area, messagebox, notified, pollError, afterQ,
                    clicks, runs, range, pc, year, paper_links, idx, appended, discovered, listing >>

inc_write(i) ==
    /\ task[i].pc = "inc_write"
    /\ downloaded_papers' = task[i].tmp + 1
    /\ task' = [task EXCEPT ![i].pc = "report", ![i].tmp = 0]
    /\ UNCHANGED << total_papers, is_scraping, log_queue, csv, start_button,
                    log_area, messagebox, notified, pollError, afterQ, clicks, runs,
                    range, pc, year, paper_links, idx, appended, discovered, listing >>

\* Lines 117-118.
report(i) ==
    /\ task[i].pc = "report"
    /\ log_queue' = Put(log_queue, Msg("progress", task[i].year, i))
    /\ afterQ' = [afterQ EXCEPT !.poll = @ + 1]
    /\ task' = [task EXCEPT ![i].pc = "done"]
    /\ UNCHANGED << total_papers, downloaded_papers, is_scraping, csv, start_button,
                    log_area, messagebox, notified, pollError, clicks, runs, range,
                    pc, year, paper_links, idx, appended, discovered, listing >>

\* download_pdf, lines 80-121, one step of one worker.
download_pdf(E) ==
    \E i \in Idx :
        \/ locate_pdf(i, E)
        \/ stream_pdf(i, E)
        \/ open_csv(i, E)
        \/ write_csv(i, E)
        \/ inc_read(i)
        \/ inc_write(i)
        \/ report(i)

\* ------------------------------------------------------------ specifications

Step(E) ==
    \/ start_scraping(E)
    \/ update_progress
    \/ enable_button
    \/ get_paper_links(E)
    \/ fetch_metadata(E)
    \/ drain
    \/ finish
    \/ download_pdf(E)

Next == Step(World)

Spec == Init /\ [][Next]_vars

NextRace == Step(Healthy)

SpecRace == Init /\ [][NextRace]_vars

NextPool == Step(Crowded)

SpecPool == Init /\ [][NextPool]_vars

\* ------------------------------------------------------------------ claims

Lines(f) == { f.lines[k] : k \in 1..Len(f.lines) }

Count(seq, x) == Cardinality({ k \in 1..Len(seq) : seq[k] = x })

IsPrefix(a, b) == Len(a) <= Len(b) /\ \A k \in 1..Len(a) : a[k] = b[k]

\* The scrape_papers thread of a started batch has ended.
ThreadEnded == runs > 0 /\ pc \in {"none", "crashed"}

\* C1: a batch that was started ends Idle: once its scrape_papers thread has
\* ended, whatever failed in its papers, is_scraping is False (no exception
\* left scrape_papers before line 175).
C1_BatchReachesIdle == ThreadEnded => ~is_scraping

\* C2: a failure on one paper is isolated to that paper: it never keeps a
\* later year of the range from being processed, so scrape_papers never
\* ends before the last year of the range.
C2_FailureIsolated == pc = "crashed" => year = range[2]

\* An invalid range, as the claim states it.
InvalidRange(r) == r[1] < 1987 \/ r[2] > 2025 \/ r[1] > r[2]

\* C3: an invocation of start_scraping with an invalid range reports a
\* validation error and performs no work: the sink is neither created nor
\* written, no thread and no pool task is started, no request can follow
\* (nothing is left running that makes one), and is_scraping stays False.
C3_InvalidRangeNoWork ==
    [][ (clicks' = clicks + 1 /\ InvalidRange(range')) =>
            /\ messagebox' = "error"
            /\ csv' = csv
            /\ pc = "none" /\ pc' = "none"
            /\ task' = task /\ \A i \in Idx : Finished(task'[i])
            /\ ~is_scraping /\ ~is_scraping'
            /\ runs' = runs ]_vars

\* An invalid range was submitted, also after a batch has run.
C3_Witness ==
    /\ clicks >= 2 /\ runs >= 1
    /\ InvalidRange(range)
    /\ messagebox = "error"

\* C4: when the workers of the first batch have appended N rows, in any
\* interleaving, to a sink that held at most its header, the sink holds
\* exactly the header followed by N rows, one for each worker that wrote.
C4_SinkWellFormed ==
    (runs = 1 /\ pc = "drain" /\ AllDone(task) /\ appended >= 1) =>
        /\ Len(csv.lines) = 1 + appended
        /\ csv.lines[1] = Header
        /\ \A k \in 2..Len(csv.lines) : csv.lines[k] # Header
        /\ \A k, m \in 2..Len(csv.lines) : k # m => csv.lines[k] # csv.lines[m]

\* C5: once every worker of a batch has finished, downloaded_papers equals
\* the number of rows appended to the sink during the batch.
C5_CounterMatchesRows ==
    (pc \in {"drain", "finish"} /\ AllDone(task)) => downloaded_papers = appended

\* C6: a paper whose detail page has no PDF link: download_pdf ends there
\* normally, having appended no row, not advanced downloaded_papers, and
\* enqueued exactly one warning line; and scrape_papers dies only of an
\* OSError, never of such a paper.
C6_AssetMissing ==
    /\ [][ \A i \in Idx :
             (task[i].out # "no_pdf" /\ task'[i].out = "no_pdf") =>
                 /\ task'[i].pc = "done"
                 /\ csv' = csv
                 /\ appended' = appended
                 /\ downloaded_papers' = downloaded_papers
                 /\ log_queue' = log_queue (+) SetToBag({Msg("no_pdf", task[i].year, i)}) ]_vars
    /\ [](\A i \in Idx : task[i].out = "no_pdf" => task[i].pc = "done")
    /\ [](pc = "crashed" => \E i \in Idx : task[i].out = "os_error")

\* A paper without PDF link in the first year, and the batch at a later year.
C6_Witness ==
    /\ year = range[2] /\ range[1] < range[2]
    /\ pc = "submit"
    /\ \E m \in BagToSet(log_queue (+) log_area) : m.kind = "no_pdf" /\ m.year = range[1]

\* C7: years are processed strictly sequentially: every unit of work that is
\* pending or running belongs to the year scrape_papers is at, and the
\* listing of a year is fetched only when no unit of work is left.
C7_YearsSequential ==
    \A i \in Idx :
        ~Finished(task[i]) => (task[i].year = year /\ pc \in {"submit", "drain"})

\* Two downloads of the second year of a range overlap.
C7_Witness ==
    /\ range[1] < range[2] /\ year = range[2]
    /\ \E i, j \in Idx : i # j /\ Running(task[i]) /\ Running(task[j])

\* C8: the sink is append-only across batches: what the file held stays a
\* prefix of what it holds, and a row is added for a paper whether or not a
\* row of that paper is there already.
C8_AppendOnly ==
    /\ [][ (csv.exists => csv'.exists) /\ IsPrefix(csv.lines, csv'.lines) ]_vars
    /\ [][ \A i \in Idx :
             (task[i].pc = "write_csv" /\ task'[i].pc = "inc_read") =>
                 Count(csv'.lines, Row(task[i].year, i))
                     = Count(csv.lines, Row(task[i].year, i)) + 1 ]_vars

\* The same range was run twice and the paper has two rows.
C8_Witness ==
    /\ runs = 2
    /\ \E i \in Idx : Count(csv.lines, Row(range[1], i)) = 2

\* C9: a row of the sink belongs to a paper whose PDF was downloaded
\* successfully, never to one whose PDF request was answered with an error.
C9_RowOnlyAfterDownload ==
    \A i \in Idx :
        (task[i].pc \in {"inc_read", "inc_write", "report"}
            /\ Row(task[i].year, i) \in Lines(csv)) => task[i].out = "ok"

\* C10: during a batch downloaded_papers never decreases.
C10_CounterMonotonic ==
    [][ (is_scraping /\ is_scraping') => downloaded_papers' >= downloaded_papers ]_vars

\* C11: in every reachable state the sink holds a header line if and only
\* if it is not empty, and it holds the header at most once, also when the
\* workers of one batch append to a sink that existed, empty, at the start.
C11_HeaderOnce ==
    /\ (Len(csv.lines) > 0 <=> Header \in Lines(csv))
    /\ Count(csv.lines, Header) <= 1

\* C12: when the request of a year's listing fails, get_paper_links returns
\* the empty list: total_papers keeps its value, no future is submitted for
\* that year, and scrape_papers goes on to the next year of the range (or
\* to its end after the last year) instead of stopping.
C12_ListingFailure ==
    /\ [][ (pc = "links" /\ listing' = "request_error") =>
              /\ total_papers' = total_papers
              /\ paper_links' = 0
              /\ pc' = "drain" ]_vars
    /\ [](listing = "request_error" =>
              /\ pc = "drain"
              /\ \A i \in Idx : task[i].pc = "none")
    /\ [][ (listing = "request_error" /\ pc' # pc) =>
              /\ year' = year + 1
              /\ pc' = IF year < range[2] THEN "links" ELSE "finish" ]_vars

\* The listing of the second year failed after the first year gave papers.
C12_Witness ==
    /\ listing = "request_error"
    /\ range[1] < range[2]
    /\ year = range[2]
    /\ total_papers > 0

\* C13: at every moment at most THREAD_COUNT futures are being executed by
\* the threads of the pool, and a submitted future starts only when fewer
\* than THREAD_COUNT are being executed: until then it waits.
C13_PoolBounded ==
    /\ [](Cardinality({ i \in Idx : Running(task[i]) }) <= THREAD_COUNT)
    /\ [][ \A i \in Idx : (task[i].pc = "pending" /\ task'[i].pc # "pending") =>
              Cardinality({ j \in Idx : Running(task[j]) }) < THREAD_COUNT ]_vars

\* Every thread of the pool is busy and a submitted future is waiting.
C13_Witness ==
    /\ Cardinality({ i \in Idx : Running(task[i]) }) = THREAD_COUNT
    /\ \E i \in Idx : task[i].pc = "pending"

\* scrape_papers is in the call of fetch_metadata for paper i (line 166).
Extracting(i) == pc = "submit" /\ idx = i

\* C14: the metadata of a paper is extracted by the pool thread that runs
\* the paper's unit of work, never by scrape_papers' own thread: whenever
\* the metadata of paper i is being extracted, a pool thread is executing
\* the future of paper i.
C14_UnitOnWorker ==
    \A i \in Idx : Extracting(i) => Running(task[i])

\* The step in which fetch_metadata returns None for paper i (lines 76-78):
\* scrape_papers moves past the paper and submits no future for it.
MetadataFailed(i) ==
    /\ pc = "submit"
    /\ idx = i
    /\ idx' = i + 1
    /\ task'[i].pc = "none"

\* C15: when fetch_metadata returns no metadata for a paper, no download is
\* attempted for the paper (no future is submitted for it), and the step
\* enqueues a line about that paper on log_queue.
C15_MetadataFailureReported ==
    [][ \A i \in Idx : MetadataFailed(i) =>
          /\ task'[i] = NoTask
          /\ \E m \in BagToSet(log_queue') :
                /\ m.paper = i
                /\ m.year = year
                /\ CopiesIn(m, log_queue') = CopiesIn(m, log_queue) + 1 ]_vars

\* C16: the step of start_scraping that accepts a range and starts a batch
\* leaves total_papers = 0, downloaded_papers = 0 and log_queue empty,
\* whatever the batch before it left.
C16_ProgressReset ==
    [][ runs' = runs + 1 =>
          /\ total_papers' = 0
          /\ downloaded_papers' = 0
          /\ log_queue' = EmptyBag ]_vars

\* C17: in every reachable state downloaded_papers is at most the number of
\* rows appended to the sink since the batch started, which is at most
\* total_papers, for every interleaving of the workers.
C17_CountersOrdered ==
    /\ downloaded_papers <= appended
    /\ appended <= total_papers

\* Two workers appended their rows and one increment was lost.
C17_Witness ==
    /\ is_scraping
    /\ AllDone(task)
    /\ appended = 2
    /\ downloaded_papers = 1
    /\ total_papers = 2

\* C18: update_progress never divides by a total_papers of 0, over any
\* sequence of batches: no run of the callback ends in ZeroDivisionError,
\* also when it was scheduled in one batch and runs in the next.
C18_NoDivisionByZero == ~pollError

\* scrape_papers returned, no future is left and no callback is scheduled:
\* nothing happens any more unless the start button is pressed again.
Quiescent ==
    /\ pc = "none"
    /\ \A i \in Idx : Finished(task[i])
    /\ afterQ.poll = 0
    /\ afterQ.enable = 0

\* C19: every line enqueued on log_queue during a batch is drained and
\* shown by update_progress, also when no download of the batch succeeds:
\* once the program has nothing left to run, no line is left on log_queue.
C19_NoLineStranded == Quiescent => log_queue = EmptyBag

\* No year of the requested range is left to fetch or to process.
BatchComplete ==
    \/ pc \in {"finish", "none"}
    \/ pc = "drain" /\ year = range[2] /\ AllDone(task)

\* C20: update_progress shows the dialog "All papers downloaded
\* successfully" only when the batch is complete, and at most once in a
\* batch.
C20_NotifiedOnceWhenComplete ==
    /\ [][ notified' > notified => BatchComplete ]_vars
    /\ [](notified <= 1)
====
